---- MODULE Spec2Model ----
(***************************************************************************)
(* dcorejs: confidential memos attached to transfers.                      *)
(*                                                                         *)
(* AccountModule.transfer builds and broadcasts a memo envelope; the       *)
(* history reader builds a TransactionMemo from a raw transaction and      *)
(* TransactionMemo.decryptedMessage scans a list of candidate private keys *)
(* for one that decrypts it.                                               *)
(*                                                                         *)
(* Strings and buffers are sequences of small naturals.  The key classes   *)
(* (KeyPrivate, KeyPublic) and the cipher (CryptoUtils) are modelled over  *)
(* a small multiplicative group: a public key is CurveGenerator^d, the shared   *)
(* secret is pub^d, the symmetric cipher shifts every byte by the key      *)
(* material and the payload is  checksum || plaintext  with a one byte     *)
(* checksum (a truncated hash, so distinct payloads can collide).          *)
(***************************************************************************)
EXTENDS Integers, Sequences, FiniteSets, TLC

\* ---------------------------------------------------------------- bounds
MaxPriv == 3          \* private scalars are 1..MaxPriv
MaxChar == 1          \* memo characters are 0..MaxChar
MaxMemoLen == 1       \* memos typed by a sender have at most this length
MaxKeys == 2          \* candidate lists have at most this many keys
MaxNonce == 1         \* nonces are 0..MaxNonce
MaxPhraseLen == 3     \* strings handed to normalize have at most this length
MaxKeyPhraseLen == 2  \* brain keys handed to the key derivation
MaxSequence == 1      \* derivation sequence numbers are 0..MaxSequence
MaxBlock == 2         \* block numbers are 0..MaxBlock
MaxTxNum == 2         \* transaction ids are 1.7.0 .. 1.7.MaxTxNum
MaxTxs == 2           \* a history search returns at most this many transactions

\* ------------------------------------------------------- toy key algebra
CurveModulus == 7     \* order of the field the signing group lives in
CurveGenerator == 3        \* its generator
ByteMod == 7          \* number of byte values of a buffer

PrivKeys == 1..MaxPriv
Nonces == 0..MaxNonce
Bytes == 0..(ByteMod - 1)

RECURSIVE ModPow(_, _, _)
ModPow(b, e, m) == IF e = 0 THEN 1 % m ELSE (b * ModPow(b, e - 1, m)) % m

\* KeyPublic.fromPrivateKey / KeyPrivate.getPublicKey
PublicOf(d) == ModPow(CurveGenerator, d, CurveModulus)

\* a shared secret that mixes the two keys without exponentiation
SharedSecretProduct(d, Q) == (Q + d * d) % CurveModulus

\* the Diffie-Hellman shared secret of a private key and a public key
SharedSecret(d, Q) == ModPow(Q, d, CurveModulus)

\* -------------------------------------------------------- wire encodings
Ok(v) == [ok |-> TRUE, val |-> v]
Throw(e) == [ok |-> FALSE, err |-> e]

WifChecksum(d) == (d + 1) % 2
\* KeyPrivate.stringKey: the wire form of a private key
WifOf(d) == <<d, WifChecksum(d)>>
\* KeyPrivate.fromWif: bad length, bad scalar or bad checksum throw
KeyPrivateFromWif(s) ==
    IF Len(s) # 2 THEN Throw("invalid_length")
    ELSE IF s[1] \notin 1..(CurveModulus - 1) THEN Throw("invalid_version")
    ELSE IF s[2] # WifChecksum(s[1]) THEN Throw("invalid_checksum")
    ELSE Ok(s[1])

PubChecksum(Q) == (2 * Q + 1) % 3
\* KeyPublic.stringKey: the wire form of a public key
PubStringOf(Q) == <<Q, PubChecksum(Q)>>
\* KeyPublic.fromString: fails loudly on a malformed string
KeyPublicFromString(s) ==
    IF Len(s) = 2 /\ s[1] \in 1..(CurveModulus - 1) /\ s[2] = PubChecksum(s[1])
    THEN Ok(s[1]) ELSE Throw("decode_error")

\* a privateKeyFromWif without the try/catch
privateKeyFromWifNoCatch(pkWif) == KeyPrivateFromWif(pkWif)

\* Utils.privateKeyFromWif: every decode error becomes wrong_private_key
privateKeyFromWif(pkWif) ==
    LET r == KeyPrivateFromWif(pkWif)
    IN  IF r.ok THEN r ELSE Throw("wrong_private_key")

\* a publicKeyFromString that decodes its argument as a private key string
publicKeyFromStringAsWif(pubKeyString) == KeyPrivateFromWif(pubKeyString)

\* Utils.publicKeyFromString: no try/catch, the decode error propagates
publicKeyFromString(pubKeyString) == KeyPublicFromString(pubKeyString)


\* ------------------------------------------------------------ the cipher
RECURSIVE SumSq(_)
SumSq(b) == IF b = <<>> THEN 0 ELSE b[1] * b[1] + SumSq(Tail(b))

\* the integrity checksum of a plaintext: a hash cut to one byte
Checksum(plain) == SumSq(plain) % ByteMod

\* the symmetric key material: the shared secret mixed with the nonce
AesKey(secret, nonce) == (secret + nonce) % ByteMod

AesEncrypt(key, buf) == [i \in 1..Len(buf) |-> (buf[i] + key) % ByteMod]
AesDecrypt(key, buf) == [i \in 1..Len(buf) |-> (buf[i] + ByteMod - key) % ByteMod]

\* CryptoUtils.encryptWithChecksum(message, privateKey, publicKey, nonce)
encryptWithChecksum(message, d, Q, nonce) ==
    AesEncrypt(AesKey(SharedSecret(d, Q), nonce), <<Checksum(message)>> \o message)

\* CryptoUtils.decryptWithChecksum(message, privateKey, publicKey, nonce):
\* throws when the buffer holds no checksum or the checksum does not match
decryptWithChecksum(message, d, Q, nonce) ==
    LET plainbuffer == AesDecrypt(AesKey(SharedSecret(d, Q), nonce), message)
    IN  IF Len(plainbuffer) < 1 THEN Throw("cipher_error")
        ELSE IF Head(plainbuffer) # Checksum(Tail(plainbuffer)) THEN Throw("checksum_mismatch")
        ELSE Ok(Tail(plainbuffer))

\* Buffer.toString(): bytes below AsciiLimit are characters, every other byte
\* decodes to the replacement character
AsciiLimit == 4
ReplacementChar == 9
BufferToString(buf) ==
    [i \in 1..Len(buf) |-> IF buf[i] < AsciiLimit THEN buf[i] ELSE ReplacementChar]


\* ---------------------------------------------------- inputs of the model
SeqsUpTo(S, n) == UNION {[1..k -> S] : k \in 0..n}

Chars == 0..MaxChar
\* the memos a sender can type
Memos == SeqsUpTo(Chars, MaxMemoLen)
\* a private key string that fails its checksum
BadWif == <<1, 1 - WifChecksum(1)>>
\* the wire strings a caller may hand in as private keys
WifStrings == {WifOf(d) : d \in PrivKeys} \cup {BadWif}
\* the memo keys of the accounts registered on the chain
ChainPubStrings == {PubStringOf(PublicOf(d)) : d \in PrivKeys}
\* a public key string that fails its checksum
BadPubString == <<2, (PubChecksum(2) + 1) % 3>>
KeyLists == SeqsUpTo(WifStrings, MaxKeys)

\* an undefined field of a TransactionMemo that holds no memo
Undefined == <<>>

\* raw transactions the node can return that no transfer() of this client made
ForeignTransactions ==
    {[hasMemo |-> FALSE, from |-> Undefined, to |-> Undefined, nonce |-> 0,
      message |-> Undefined]}
    \cup
    [hasMemo : {TRUE}, from : {PubStringOf(PublicOf(1))},
     to : {PubStringOf(PublicOf(1)), BadPubString},
     nonce : Nonces, message : SeqsUpTo(Bytes, MaxMemoLen + 1)]

\* ------------------------------------------------ AccountModule.transfer
\* a memo_object whose message is encrypted for the sender's own memo key
MemoObjectForSender(memo, pKey, fromPublicKey, toPublicKey, nonce) ==
    LET pubKey == publicKeyFromString(fromPublicKey)
    IN  [hasMemo |-> TRUE,
         from |-> fromPublicKey,
         to |-> toPublicKey,
         nonce |-> nonce,
         message |-> encryptWithChecksum(memo, pKey, pubKey.val, nonce)]

\* the memo_object of transfer(): the memo is encrypted with the sender's
\* private key and the receiver's memo key
MemoObject(memo, pKey, fromPublicKey, toPublicKey, nonce) ==
    LET pubKey == publicKeyFromString(toPublicKey)
    IN  [hasMemo |-> TRUE,
         from |-> fromPublicKey,
         to |-> toPublicKey,
         nonce |-> nonce,
         message |-> encryptWithChecksum(memo, pKey, pubKey.val, nonce)]

\* ------------------------------------------------------- TransactionMemo
\* a constructor that marks every memo valid
TransactionMemoAlwaysValid(transaction) ==
    IF ~transaction.hasMemo
    THEN [valid |-> TRUE, from |-> Undefined, message |-> Undefined,
          nonce |-> 0, to |-> Undefined]
    ELSE [valid |-> TRUE, from |-> transaction.from, message |-> transaction.message,
          nonce |-> transaction.nonce, to |-> transaction.to]

\* constructor: valid exactly when the transaction carries an encrypted memo
TransactionMemo(transaction) ==
    IF ~transaction.hasMemo
    THEN [valid |-> FALSE, from |-> Undefined, message |-> Undefined,
          nonce |-> 0, to |-> Undefined]
    ELSE [valid |-> TRUE, from |-> transaction.from, message |-> transaction.message,
          nonce |-> transaction.nonce, to |-> transaction.to]

\* the locals of one decryptedMessage call: the plaintext recorded so far, the
\* decode and decrypt attempts made (in order), the errors the catch clauses
\* swallowed, and the exception that is propagating, if any
NoScan == [decrypted |-> <<>>, log |-> <<>>, caught |-> <<>>, thrown |-> "none"]

\* a callback without the outer catch: a failed candidate throws out of it
forEachCallbackNoCatch(acc, pk, i, memo, pubKey) ==
    LET pKey == privateKeyFromWif(pk)
        tried == Append(acc.log, <<"wif", i>>)
    IN  IF ~pKey.ok
        THEN [acc EXCEPT !.log = tried, !.thrown = pKey.err]
        ELSE LET r == decryptWithChecksum(memo.message, pKey.val, pubKey, memo.nonce)
                 attempted == Append(tried, <<"dec", i>>)
             IN  IF r.ok
                 THEN [acc EXCEPT !.log = attempted, !.decrypted = BufferToString(r.val)]
                 ELSE [acc EXCEPT !.log = attempted, !.thrown = "account_keys_incorrect"]

\* a callback that keeps the first plaintext it recorded
forEachCallbackKeepFirst(acc, pk, i, memo, pubKey) ==
    LET pKey == privateKeyFromWif(pk)
        tried == Append(acc.log, <<"wif", i>>)
    IN  IF ~pKey.ok
        THEN [acc EXCEPT !.log = tried, !.caught = Append(@, pKey.err)]
        ELSE LET r == decryptWithChecksum(memo.message, pKey.val, pubKey, memo.nonce)
                 attempted == Append(tried, <<"dec", i>>)
             IN  IF r.ok
                 THEN [acc EXCEPT !.log = attempted,
                                  !.decrypted = IF @ = <<>> THEN BufferToString(r.val) ELSE @]
                 ELSE [acc EXCEPT !.log = attempted,
                                  !.caught = Append(@, "account_keys_incorrect")]

\* a callback whose inner catch passes on the error of the failed decryption
forEachCallbackRawError(acc, pk, i, memo, pubKey) ==
    LET pKey == privateKeyFromWif(pk)
        tried == Append(acc.log, <<"wif", i>>)
    IN  IF ~pKey.ok
        THEN [acc EXCEPT !.log = tried, !.caught = Append(@, pKey.err)]
        ELSE LET r == decryptWithChecksum(memo.message, pKey.val, pubKey, memo.nonce)
                 attempted == Append(tried, <<"dec", i>>)
             IN  IF r.ok
                 THEN [acc EXCEPT !.log = attempted, !.decrypted = BufferToString(r.val)]
                 ELSE [acc EXCEPT !.log = attempted, !.caught = Append(@, r.err)]

\* the callback of privateKeys.forEach, for the key pk at position i
forEachCallback(acc, pk, i, memo, pubKey) ==
    LET pKey == privateKeyFromWif(pk)
        tried == Append(acc.log, <<"wif", i>>)
    IN  IF ~pKey.ok
        THEN [acc EXCEPT !.log = tried, !.caught = Append(@, pKey.err)]
        ELSE LET r == decryptWithChecksum(memo.message, pKey.val, pubKey, memo.nonce)
                 attempted == Append(tried, <<"dec", i>>)
             IN  IF r.ok
                 THEN [acc EXCEPT !.log = attempted, !.decrypted = BufferToString(r.val)]
                 ELSE [acc EXCEPT !.log = attempted,
                                  !.caught = Append(@, "account_keys_incorrect")]

\* an iteration that visits the elements from the last to the first
RECURSIVE forEachReversed(_, _, _, _, _)
forEachReversed(acc, privateKeys, i, memo, pubKey) ==
    IF i > Len(privateKeys) \/ acc.thrown # "none" THEN acc
    ELSE LET j == Len(privateKeys) + 1 - i
         IN  forEachReversed(forEachCallback(acc, privateKeys[j], j, memo, pubKey),
                             privateKeys, i + 1, memo, pubKey)

\* Array.prototype.forEach: the callback runs on every element in index order;
\* an exception that leaves the callback ends the iteration
RECURSIVE forEach(_, _, _, _, _)
forEach(acc, privateKeys, i, memo, pubKey) ==
    IF i > Len(privateKeys) \/ acc.thrown # "none" THEN acc
    ELSE forEach(forEachCallback(acc, privateKeys[i], i, memo, pubKey),
                 privateKeys, i + 1, memo, pubKey)

\* a decryptedMessage that decodes the recipient key before it looks at valid
decryptedMessageDecodeFirst(memo, privateKeys) ==
    LET pubKey == publicKeyFromString(memo.to)
        start == [NoScan EXCEPT !.log = <<<<"pub", 0>>>>]
    IN  IF ~pubKey.ok
        THEN [outcome |-> "raised", value |-> <<>>,
              scan |-> [start EXCEPT !.thrown = pubKey.err]]
        ELSE IF ~memo.valid
        THEN [outcome |-> "returned", value |-> <<>>, scan |-> start]
        ELSE LET acc == forEach(start, privateKeys, 1, memo, pubKey.val)
             IN  [outcome |-> "returned", value |-> acc.decrypted, scan |-> acc]

\* TransactionMemo.decryptedMessage(privateKeys)
decryptedMessage(memo, privateKeys) ==
    IF ~memo.valid
    THEN [outcome |-> "returned", value |-> <<>>, scan |-> NoScan]
    ELSE LET pubKey == publicKeyFromString(memo.to)
             start == [NoScan EXCEPT !.log = <<<<"pub", 0>>>>]
         IN  IF ~pubKey.ok
             THEN [outcome |-> "raised", value |-> <<>>,
                   scan |-> [start EXCEPT !.thrown = pubKey.err]]
             ELSE LET acc == forEach(start, privateKeys, 1, memo, pubKey.val)
                  IN  IF acc.thrown # "none"
                      THEN [outcome |-> "raised", value |-> <<>>, scan |-> acc]
                      ELSE [outcome |-> "returned", value |-> acc.decrypted, scan |-> acc]

\* ----------------------------------------------------------------- Utils
VARIABLES
    last,         \* the latest call of a Utils operation: name, arguments, outcome
    pinned,       \* an earlier call of a Utils operation, kept for comparison
    since         \* "same": pinned is the latest call, "next": the one before it,
                  \* "later": other calls were made in between

NoCall == [op |-> "none", arg |-> <<>>, res |-> Throw("none")]

\* String.prototype.trim removes these characters from both ends
TrimWhitespace == {9, 10, 11, 12, 13, 32, 160}
\* the character class [\t\n\v\f\r ] of the split
SplitWhitespace == {9, 10, 11, 12, 13, 32}

RECURSIVE TrimStart(_)
TrimStart(s) ==
    IF s # <<>> /\ s[1] \in TrimWhitespace THEN TrimStart(Tail(s)) ELSE s
RECURSIVE TrimEnd(_)
TrimEnd(s) ==
    IF s # <<>> /\ s[Len(s)] \in TrimWhitespace
    THEN TrimEnd(SubSeq(s, 1, Len(s) - 1)) ELSE s
Trim(s) == TrimEnd(TrimStart(s))

\* a trim that removes at most one character from each end
TrimOne(s) ==
    LET t == IF s # <<>> /\ s[1] \in TrimWhitespace THEN Tail(s) ELSE s
    IN  IF t # <<>> /\ t[Len(t)] \in TrimWhitespace THEN SubSeq(t, 1, Len(t) - 1) ELSE t

\* String.prototype.toUpperCase on the letters a..z
ToUpperCase(s) ==
    [i \in 1..Len(s) |-> IF s[i] \in 97..122 THEN s[i] - 32 ELSE s[i]]

RECURSIVE SkipRun(_)
SkipRun(s) ==
    IF s # <<>> /\ s[1] \in SplitWhitespace THEN SkipRun(Tail(s)) ELSE s

\* String.prototype.split(/[\t\n\v\f\r ]+/): the pieces between the maximal
\* runs of separators, empty pieces at the ends included
RECURSIVE SplitRec(_, _, _)
SplitRec(s, cur, out) ==
    IF s = <<>> THEN Append(out, cur)
    ELSE IF s[1] \in SplitWhitespace
    THEN SplitRec(SkipRun(Tail(s)), <<>>, Append(out, cur))
    ELSE SplitRec(Tail(s), Append(cur, s[1]), out)
Split(s) == SplitRec(s, <<>>, <<>>)

\* Array.prototype.join(sep)
RECURSIVE Join(_, _)
Join(parts, sep) ==
    IF parts = <<>> THEN <<>>
    ELSE IF Len(parts) = 1 THEN parts[1]
    ELSE parts[1] \o <<sep>> \o Join(Tail(parts), sep)

\* a normalize whose trim removes a single character
normalizeTrimOne(brainKey) == Join(Split(ToUpperCase(TrimOne(brainKey))), 32)

\* a normalize that leaves the case of the letters alone
normalizeNoUpper(brainKey) == Join(Split(Trim(brainKey)), 32)

\* Utils.normalize: trim, upper-case, then every run of [\t\n\v\f\r ] becomes
\* one space (the argument is always a string here, so the type check passes)
normalize(brainKey) == Join(Split(ToUpperCase(Trim(brainKey))), 32)

\* Number.prototype.toString(radix) / BigInteger.toString(): the digits 0-9a-z
RECURSIVE ToStringRadix(_, _)
ToStringRadix(n, radix) ==
    LET d == n % radix
        c == IF d < 10 THEN 48 + d ELSE 87 + d
    IN  IF n < radix THEN <<c>> ELSE Append(ToStringRadix(n \div radix, radix), c)

\* the value of one character as a digit, or radix when it is none
DigitValue(c, radix) ==
    LET v == IF c \in 48..57 THEN c - 48
             ELSE IF c \in 97..122 THEN c - 87
             ELSE radix
    IN  IF v < radix THEN v ELSE radix

RECURSIVE ParseRadix(_, _, _)
ParseRadix(s, radix, acc) ==
    IF s = <<>> THEN acc
    ELSE ParseRadix(Tail(s), radix, acc * radix + DigitValue(s[1], radix))

\* BigInteger(text, radix) on unsigned texts: the number the digits spell, or
\* an error when a character is not a digit of the radix
BigInteger(text, radix) ==
    IF \A i \in 1..Len(text) : DigitValue(text[i], radix) < radix
    THEN Ok(ParseRadix(text, radix, 0))
    ELSE Throw("invalid_integer")

\* the digest KeyPrivate.fromBrainKey hashes its text with
RECURSIVE BrainKeyDigest(_, _)
BrainKeyDigest(s, h) ==
    IF s = <<>> THEN h ELSE BrainKeyDigest(Tail(s), (h * 31 + s[1]) % 251)

\* KeyPrivate.fromBrainKey(brainKey, sequence): the scalar is the digest of
\* the phrase, a space and the sequence number, reduced into the key range
KeyPrivateFromBrainKey(brainKey, sequence) ==
    1 + (BrainKeyDigest(brainKey \o <<32>> \o ToStringRadix(sequence, 10), 7)
            % (CurveModulus - 1))

\* KeyPublic.fromPrivateKey
KeyPublicFromPrivateKey(pkey) == PublicOf(pkey)

\* a derivation that answers from the previous call when its phrase is the same
derivePrivateKeyCached(brainKey, sequence) ==
    IF last.op = "derivePrivateKey" /\ last.arg[1] = brainKey
    THEN last.res
    ELSE Ok(KeyPrivateFromBrainKey(brainKey, sequence))

\* Utils.derivePrivateKey: the phrase is handed on as it is
derivePrivateKey(brainKey, sequence) ==
    Ok(KeyPrivateFromBrainKey(brainKey, sequence))

\* a generateKeys that derives from the phrase as supplied
generateKeysNoNormalize(fromBrainKey) ==
    LET pkey == KeyPrivateFromBrainKey(fromBrainKey, 0)
        pubKey == KeyPublicFromPrivateKey(pkey)
    IN  Ok(<<pkey, pubKey>>)

\* Utils.generateKeys: normalizes the phrase, derives the key of sequence 0
\* (the default of fromBrainKey) and the public key of that key
generateKeys(fromBrainKey) ==
    LET normalizedBk == normalize(fromBrainKey)
        pkey == KeyPrivateFromBrainKey(normalizedBk, 0)
        pubKey == KeyPublicFromPrivateKey(pkey)
    IN  Ok(<<pkey, pubKey>>)

\* BigInteger.modPow, by repeated squaring
RECURSIVE modPow(_, _, _)
modPow(b, e, m) ==
    IF e = 0 THEN 1 % m
    ELSE LET h == modPow(b, e \div 2, m)
         IN  IF e % 2 = 0 THEN (h * h) % m ELSE (h * h * b) % m

\* the El Gamal group: the modulus stands for the 512-bit prime of the code
ElGamalModulus == 23
ElGamalGenerator == 3

\* the number the hash of a scalar is
Sha512Value(d) == (d * d * 41 + d * 7 + 13) % 256

\* sha512(buffer of the scalar): the hash as a hex text of fixed width
sha512(d) ==
    LET v == Sha512Value(d)
    IN  <<ToStringRadix(v \div 16, 16)[1], ToStringRadix(v % 16, 16)[1]>>

\* an elGamalPublic that reads its argument as a hex text
elGamalPublicHex(elGamalPrivateText) ==
    LET elgPriv == BigInteger(elGamalPrivateText, 16)
    IN  IF ~elgPriv.ok THEN elgPriv
        ELSE Ok(ToStringRadix(modPow(ElGamalGenerator, elgPriv.val, ElGamalModulus), 10))

\* Utils.elGamalPublic: generator^private mod modulus as a decimal text; there
\* is no try/catch, so an error of BigInteger leaves the call as it is
elGamalPublic(elGamalPrivateText) ==
    LET elgPriv == BigInteger(elGamalPrivateText, 10)
    IN  IF ~elgPriv.ok THEN elgPriv
        ELSE Ok(ToStringRadix(modPow(ElGamalGenerator, elgPriv.val, ElGamalModulus), 10))

\* Utils.elGamalPrivate: the hash of the decoded scalar, read as a hex number
\* and written in decimal; every error becomes wrong_private_key
elGamalPrivate(privateKeyWif) ==
    LET pKey == privateKeyFromWif(privateKeyWif)
    IN  IF ~pKey.ok THEN Throw("wrong_private_key")
        ELSE LET hash == sha512(pKey.val)
                 n == BigInteger(hash, 16)
             IN  IF ~n.ok THEN Throw("wrong_private_key")
                 ELSE Ok(ToStringRadix(n.val, 10))

\* the inputs of the Utils calls
PhraseChars == {97, 66, 32, 9, 160}
Phrases == SeqsUpTo(PhraseChars, MaxPhraseLen)
KeyPhrases == SeqsUpTo({97, 32}, MaxKeyPhraseLen)
Sequences == 0..MaxSequence
ValidScalars == 1..(CurveModulus - 1)
WifTexts ==
    {<<>>, <<1, 0, 0>>} \cup {<<d>> : d \in 0..CurveModulus}
        \cup {<<d, c>> : d \in 0..CurveModulus, c \in 0..1}
PubTexts ==
    {<<>>} \cup {<<q, c>> : q \in 0..CurveModulus, c \in 0..2}
ScalarTexts ==
    {elGamalPrivate(WifOf(d)).val : d \in ValidScalars}
        \cup {<<49, 97>>, <<120>>, <<48>>}

\* ----------------------------------------------------------------- state
VARIABLES
    pc,           \* "idle", "transferThrew", "onchain", "returned" or "raised"
    sent,         \* the arguments of the transfer() that made the transaction
    chain,        \* the raw transaction the node returns
    memo,         \* the TransactionMemo built from it
    privateKeys,  \* the candidate keys of the history call
    memoString,   \* TransactionRecord.memoString
    scan          \* the locals of the decryptedMessage call

memoVars == <<pc, sent, chain, memo, privateKeys, memoString, scan>>
utilsVars == <<last, pinned, since>>

NoTransfer == [made |-> FALSE, memo |-> <<>>, pKey |-> 0, toKey |-> 0]
NoTransaction ==
    [hasMemo |-> FALSE, from |-> Undefined, to |-> Undefined, nonce |-> 0,
     message |-> Undefined]

\* ------------------------------------------------------ concurrent scans
VARIABLES
    envelopes,    \* the TransactionMemo objects calls share: their fields now,
                  \* and the fields the constructor gave them
    jobs          \* the decryptedMessage calls in progress, one per call site

EnvelopeIds == {"e1", "e2"}
CallSites == {"a", "b"}

NoEnvelope ==
    [made |-> FALSE, memo |-> TransactionMemo(NoTransaction), built |-> TransactionMemo(NoTransaction)]

\* the locals of a call that has not been made
NoJob ==
    [pc |-> "idle", env |-> "e1", privateKeys |-> <<>>, given |-> <<>>, i |-> 0,
     pubKey |-> 0, acc |-> NoScan, value |-> <<>>, interleaved |-> FALSE]

\* the transactions the shared envelopes are built from
ScanTransactions ==
    {NoTransaction,
     MemoObject(<<1>>, 1, PubStringOf(PublicOf(1)), PubStringOf(PublicOf(2)), 0),
     [hasMemo |-> TRUE, from |-> PubStringOf(PublicOf(1)), to |-> BadPubString,
      nonce |-> 0, message |-> <<1>>]}

\* the key lists handed to the concurrent calls
ScanKeyLists == SeqsUpTo({WifOf(1), WifOf(2)}, MaxKeys)

\* ------------------------------------------------------------ API calls
VARIABLES
    api           \* the call of a module method in progress: the method, its
                  \* arguments, where it is waiting, its promise, the requests
                  \* it has issued and what the node answered

\* a promise: its state, its settled value, and the resolve and reject calls
\* made on it so far
NoPromise == [state |-> "none", value |-> <<"none">>, calls |-> <<>>]
NewPromise == [state |-> "pending", value |-> <<"none">>, calls |-> <<>>]

\* resolve(v) and reject(e) settle a pending promise and do nothing else
Resolve(promise, v) ==
    [state |-> IF promise.state = "pending" THEN "resolved" ELSE promise.state,
     value |-> IF promise.state = "pending" THEN v ELSE promise.value,
     calls |-> Append(promise.calls, <<"resolve", v>>)]
Reject(promise, e) ==
    [state |-> IF promise.state = "pending" THEN "rejected" ELSE promise.state,
     value |-> IF promise.state = "pending" THEN <<"error", e>> ELSE promise.value,
     calls |-> Append(promise.calls, <<"reject", e>>)]

NoApi ==
    [op |-> "none", pos |-> "idle", promise |-> NoPromise, reqs |-> <<>>,
     thrown |-> "none", args |-> <<>>, got |-> <<>>]

laterVars == <<envelopes, jobs, api>>

vars ==
    <<pc, sent, chain, memo, privateKeys, memoString, scan, last, pinned, since,
      envelopes, jobs, api>>

Init ==
    /\ pc = "idle"
    /\ sent = NoTransfer
    /\ chain = NoTransaction
    /\ memo = TransactionMemo(NoTransaction)
    /\ privateKeys = <<>>
    /\ memoString = <<>>
    /\ scan = NoScan
    /\ last = NoCall
    /\ pinned = NoCall
    /\ since = "same"
    /\ envelopes = [e \in EnvelopeIds |-> NoEnvelope]
    /\ jobs = [c \in CallSites |-> NoJob]
    /\ api = NoApi

\* transfer(amount, assetId, fromAccount, toAccount, memo, privateKey) with
\* both accounts found: a private key that does not decode throws out of the
\* call, otherwise the memo is encrypted and the transfer is broadcast
Transfer ==
    /\ pc = "idle"
    /\ \E text \in Memos, privateKey \in WifStrings, nonce \in Nonces,
          fromPublicKey \in ChainPubStrings, toPublicKey \in ChainPubStrings :
          LET pKey == privateKeyFromWif(privateKey)
          IN  IF ~pKey.ok
              THEN /\ pc' = "transferThrew"
                   /\ UNCHANGED <<sent, chain>>
              ELSE /\ pc' = "onchain"
                   /\ chain' = MemoObject(text, pKey.val, fromPublicKey, toPublicKey, nonce)
                   /\ sent' = [made |-> TRUE, memo |-> text, pKey |-> pKey.val,
                               toKey |-> publicKeyFromString(toPublicKey).val]
    /\ UNCHANGED <<memo, privateKeys, memoString, scan>>
    /\ UNCHANGED utilsVars
    /\ UNCHANGED laterVars

\* the node holds a transaction made elsewhere
ForeignTransaction ==
    /\ pc = "idle"
    /\ \E transaction \in ForeignTransactions : chain' = transaction
    /\ pc' = "onchain"
    /\ UNCHANGED <<sent, memo, privateKeys, memoString, scan>>
    /\ UNCHANGED utilsVars
    /\ UNCHANGED laterVars

\* new TransactionRecord(transaction, privateKeys): builds the memo and
\* decrypts it with the candidate keys
NewTransactionRecord ==
    /\ pc = "onchain"
    /\ \E keys \in KeyLists :
          LET m == TransactionMemo(chain)
              r == decryptedMessage(m, keys)
          IN  /\ memo' = m
              /\ privateKeys' = keys
              /\ scan' = r.scan
              /\ pc' = r.outcome
              /\ memoString' = r.value
    /\ UNCHANGED <<sent, chain>>
    /\ UNCHANGED utilsVars
    /\ UNCHANGED laterVars

Next == Transfer \/ ForeignTransaction \/ NewTransactionRecord

Spec == Init /\ [][Next]_vars

\* a call of a Utils operation returns: the comparison call is either kept
\* or, for a derivation or an El Gamal operation, replaced by it
Pin ==
    \/ /\ last'.op \in {"derivePrivateKey", "elGamalPrivate", "elGamalPublic"}
       /\ pinned' = last'
       /\ since' = "same"
    \/ /\ pinned # NoCall
       /\ pinned' = pinned
       /\ since' = IF since = "same" THEN "next" ELSE "later"

Call(op, arg, res) == [op |-> op, arg |-> arg, res |-> res]

Normalize ==
    /\ \E brainKey \in Phrases :
          last' = Call("normalize", <<brainKey>>, Ok(normalize(brainKey)))
    /\ UNCHANGED <<pinned, since>>
    /\ UNCHANGED memoVars
    /\ UNCHANGED laterVars

GenerateKeys ==
    /\ \E fromBrainKey \in KeyPhrases :
          last' = Call("generateKeys", <<fromBrainKey>>, generateKeys(fromBrainKey))
    /\ Pin
    /\ UNCHANGED memoVars
    /\ UNCHANGED laterVars

DerivePrivateKey ==
    /\ \E brainKey \in KeyPhrases, sequence \in Sequences :
          last' = Call("derivePrivateKey", <<brainKey, sequence>>,
                       derivePrivateKey(brainKey, sequence))
    /\ Pin
    /\ UNCHANGED memoVars
    /\ UNCHANGED laterVars

PrivateKeyFromWif ==
    /\ \E pkWif \in WifTexts :
          last' = Call("privateKeyFromWif", <<pkWif>>, privateKeyFromWif(pkWif))
    /\ Pin
    /\ UNCHANGED memoVars
    /\ UNCHANGED laterVars

PublicKeyFromString ==
    /\ \E pubKeyString \in PubTexts :
          last' = Call("publicKeyFromString", <<pubKeyString>>,
                       publicKeyFromString(pubKeyString))
    /\ Pin
    /\ UNCHANGED memoVars
    /\ UNCHANGED laterVars

ElGamalPrivate ==
    /\ \E privateKeyWif \in WifTexts :
          last' = Call("elGamalPrivate", <<privateKeyWif>>,
                       elGamalPrivate(privateKeyWif))
    /\ Pin
    /\ UNCHANGED memoVars
    /\ UNCHANGED laterVars

ElGamalPublic ==
    /\ \E elGamalPrivateText \in ScalarTexts :
          last' = Call("elGamalPublic", <<elGamalPrivateText>>,
                       elGamalPublic(elGamalPrivateText))
    /\ Pin
    /\ UNCHANGED memoVars
    /\ UNCHANGED laterVars

\* the calls of normalize alone
NormalizeSpec == Init /\ [][Normalize]_vars

UtilsNext ==
    \/ GenerateKeys
    \/ DerivePrivateKey
    \/ PrivateKeyFromWif
    \/ PublicKeyFromString
    \/ ElGamalPrivate
    \/ ElGamalPublic

UtilsSpec == Init /\ [][UtilsNext]_vars

\* new TransactionMemo(transaction): one of the shared envelopes is built
NewTransactionMemo(e) ==
    /\ ~envelopes[e].made
    /\ \E transaction \in ScanTransactions :
          LET m == TransactionMemo(transaction)
          IN  envelopes' = [envelopes EXCEPT ![e] = [made |-> TRUE, memo |-> m, built |-> m]]
    /\ UNCHANGED <<jobs, api>>
    /\ UNCHANGED <<memoVars, utilsVars>>

\* decryptedMessage(privateKeys) is entered at call site c: the valid check and
\* the decoding of the recipient key, up to the start of the forEach
DecryptedMessageEnter(c) ==
    /\ jobs[c].pc = "idle"
    /\ \E e \in EnvelopeIds, keys \in ScanKeyLists :
          /\ envelopes[e].made
          /\ LET m == envelopes[e].memo
                 pubKey == publicKeyFromString(m.to)
                 start == [NoScan EXCEPT !.log = <<<<"pub", 0>>>>]
                 job == [NoJob EXCEPT !.env = e, !.privateKeys = keys, !.given = keys]
             IN  jobs' = [jobs EXCEPT ![c] =
                    IF ~m.valid
                    THEN [job EXCEPT !.pc = "returned"]
                    ELSE IF ~pubKey.ok
                    THEN [job EXCEPT !.pc = "raised",
                                     !.acc = [start EXCEPT !.thrown = pubKey.err]]
                    ELSE [job EXCEPT !.pc = "scanning", !.i = 1,
                                     !.pubKey = pubKey.val, !.acc = start]]
    /\ UNCHANGED <<envelopes, api>>
    /\ UNCHANGED <<memoVars, utilsVars>>

\* a forEach step whose plaintext variable is one variable of the module, which
\* every call in progress reads and writes
ForEachStepShared(c) ==
    /\ jobs[c].pc = "scanning"
    /\ jobs[c].i <= Len(jobs[c].privateKeys)
    /\ LET job == jobs[c]
           acc == forEachCallback(job.acc, job.privateKeys[job.i], job.i,
                                  envelopes[job.env].memo, job.pubKey)
       IN  jobs' = [d \in CallSites |->
                      IF d = c
                      THEN [job EXCEPT !.acc = acc, !.i = @ + 1,
                               !.interleaved = @ \/ \E o \in CallSites \ {c} : jobs[o].pc = "scanning"]
                      ELSE IF jobs[d].pc = "scanning"
                      THEN [jobs[d] EXCEPT !.acc.decrypted = acc.decrypted]
                      ELSE jobs[d]]
    /\ UNCHANGED <<envelopes, api>>
    /\ UNCHANGED <<memoVars, utilsVars>>

\* the forEach of call site c runs its callback on the next key; the calls of
\* other call sites may have run steps of theirs since the one before
ForEachStep(c) ==
    /\ jobs[c].pc = "scanning"
    /\ jobs[c].i <= Len(jobs[c].privateKeys)
    /\ LET job == jobs[c]
           acc == forEachCallback(job.acc, job.privateKeys[job.i], job.i,
                                  envelopes[job.env].memo, job.pubKey)
       IN  jobs' = [jobs EXCEPT ![c] =
                      [job EXCEPT !.acc = acc, !.i = @ + 1,
                          !.interleaved = @ \/ \E o \in CallSites \ {c} : jobs[o].pc = "scanning"]]
    /\ UNCHANGED <<envelopes, api>>
    /\ UNCHANGED <<memoVars, utilsVars>>

\* the forEach of call site c is over: decryptedMessage returns decrypted
DecryptedMessageReturn(c) ==
    /\ jobs[c].pc = "scanning"
    /\ jobs[c].i > Len(jobs[c].privateKeys)
    /\ jobs' = [jobs EXCEPT ![c].pc = "returned", ![c].value = jobs[c].acc.decrypted]
    /\ UNCHANGED <<envelopes, api>>
    /\ UNCHANGED <<memoVars, utilsVars>>

ScanNext ==
    \/ \E e \in EnvelopeIds : NewTransactionMemo(e)
    \/ \E c \in CallSites : DecryptedMessageEnter(c)
    \/ \E c \in CallSites : ForEachStep(c)
    \/ \E c \in CallSites : DecryptedMessageReturn(c)

\* decryptedMessage calls of two call sites, interleaved at every callback
ScanSpec == Init /\ [][ScanNext]_vars

\* ------------------------------------------------------------ API calls
otherVars == <<memoVars, utilsVars, envelopes, jobs>>

\* String.prototype.split('.')
RECURSIVE SplitDotsRec(_, _, _)
SplitDotsRec(s, cur, out) ==
    IF s = <<>> THEN Append(out, cur)
    ELSE IF s[1] = 46 THEN SplitDotsRec(Tail(s), <<>>, Append(out, cur))
    ELSE SplitDotsRec(Tail(s), Append(cur, s[1]), out)
SplitDots(s) == SplitDotsRec(s, <<>>, <<>>)

\* the text '1.7.n'
TransactionIdText(n) == <<49, 46, 55, 46>> \o ToStringRadix(n, 10)
TransactionIds == {TransactionIdText(n) : n \in 0..MaxTxNum}
BlockNumbers == 0..MaxBlock
\* what the history request answers: the records found, by block number
HistoryResults == SeqsUpTo(BlockNumbers, 2)

\* isTransactionConfirmed: the start id of the history request, for an id
\* other than '1.7.0'
StartOfHistory(transactionId) ==
    LET trNumSplit == SplitDots(transactionId)
        last3 == ToStringRadix(ParseRadix(trNumSplit[3], 10, 0) - 1, 10)
    IN  Join([trNumSplit EXCEPT ![3] = last3], 46)

\* isTransactionConfirmed(accountId, transactionId), the executor: '1.7.0' is
\* rejected, and in either case the history request is issued
IsTransactionConfirmedCall ==
    /\ api.pos = "idle"
    /\ \E transactionId \in TransactionIds :
          LET zero == transactionId = TransactionIdText(0)
              start == IF zero THEN transactionId ELSE StartOfHistory(transactionId)
              promise == IF zero THEN Reject(NewPromise, "bad_parameter") ELSE NewPromise
          IN  api' = [NoApi EXCEPT !.op = "isTransactionConfirmed",
                                   !.args = <<transactionId>>,
                                   !.promise = promise,
                                   !.reqs = <<<<"GetAccountHistory", start, transactionId>>>>,
                                   !.pos = "awaitHistory"]
    /\ UNCHANGED otherVars

\* the history request succeeded: an empty result is rejected, and in either
\* case the global properties are requested
IsTransactionConfirmedHistoryThen ==
    /\ api.op = "isTransactionConfirmed" /\ api.pos = "awaitHistory"
    /\ \E res \in HistoryResults :
          api' = [api EXCEPT !.got = <<res>>,
                             !.promise = IF Len(res) = 0
                                         THEN Reject(@, "transaction_history_fetch_failed")
                                         ELSE @,
                             !.reqs = Append(@, <<"GetDynamicGlobalProperties">>),
                             !.pos = "awaitProps"]
    /\ UNCHANGED otherVars

\* the history request failed
IsTransactionConfirmedHistoryCatch ==
    /\ api.op = "isTransactionConfirmed" /\ api.pos = "awaitHistory"
    /\ api' = [api EXCEPT !.promise = Reject(@, "history_fetch_failed"), !.pos = "done"]
    /\ UNCHANGED otherVars

\* a callback that resolves with the comparison turned around
IsTransactionConfirmedPropsThenReversed ==
    /\ api.op = "isTransactionConfirmed" /\ api.pos = "awaitProps"
    /\ \E last_irreversible_block_num \in BlockNumbers :
          LET res == api.got[1]
          IN  api' = [api EXCEPT
                        !.got = Append(@, last_irreversible_block_num),
                        !.promise =
                            IF Len(res) = 0
                            THEN Reject(@, "database_operation_failed")
                            ELSE Resolve(@, <<"boolean", last_irreversible_block_num <= res[1]>>),
                        !.pos = "done"]
    /\ UNCHANGED otherVars

\* the global properties arrived: the promise is resolved with the comparison
\* of the first record's block number; with no record, reading res[0].block_num
\* throws and the catch of this chain rejects
IsTransactionConfirmedPropsThen ==
    /\ api.op = "isTransactionConfirmed" /\ api.pos = "awaitProps"
    /\ \E last_irreversible_block_num \in BlockNumbers :
          LET res == api.got[1]
          IN  api' = [api EXCEPT
                        !.got = Append(@, last_irreversible_block_num),
                        !.promise =
                            IF Len(res) = 0
                            THEN Reject(@, "database_operation_failed")
                            ELSE Resolve(@, <<"boolean", res[1] <= last_irreversible_block_num>>),
                        !.pos = "done"]
    /\ UNCHANGED otherVars

\* the request of the global properties failed
IsTransactionConfirmedPropsCatch ==
    /\ api.op = "isTransactionConfirmed" /\ api.pos = "awaitProps"
    /\ api' = [api EXCEPT !.promise = Reject(@, "database_operation_failed"),
                          !.pos = "done"]
    /\ UNCHANGED otherVars

\* the arguments of transfer(): the memo text and the private key text
TransferMemos == {<<>>, <<1>>}
TransferKeys == {<<>>, WifOf(1), BadWif}
\* what chainApi.fetch answers for an account: nothing, or an account with
\* its memo key
NoAccount == [found |-> FALSE, memo_key |-> <<>>]
SenderAccounts == {NoAccount, [found |-> TRUE, memo_key |-> PubStringOf(PublicOf(1))]}
ReceiverAccounts ==
    {NoAccount, [found |-> TRUE, memo_key |-> PubStringOf(PublicOf(2))],
     [found |-> TRUE, memo_key |-> BadPubString]}

\* transfer(amount, assetId, fromAccount, toAccount, memo, privateKey) up to
\* the fetch: the private key is decoded before the promise exists, so a key
\* that does not decode throws out of the call
TransferCall ==
    /\ api.pos = "idle"
    /\ \E memoText \in TransferMemos, privateKey \in TransferKeys :
          LET pKey == privateKeyFromWif(privateKey)
              call == [NoApi EXCEPT !.op = "transfer", !.args = <<memoText, privateKey>>]
          IN  api' = IF ~pKey.ok
                     THEN [call EXCEPT !.pos = "threw", !.thrown = pKey.err]
                     ELSE [call EXCEPT
                             !.promise = IF memoText # <<>> /\ privateKey = <<>>
                                         THEN Reject(NewPromise, "transfer_missing_pkey")
                                         ELSE NewPromise,
                             !.reqs = <<<<"fetch">>>>,
                             !.pos = "awaitFetch"]
    /\ UNCHANGED otherVars

\* a callback that reads the memo keys of missing accounts as empty texts
TransferFetchThenNullSafe ==
    /\ api.op = "transfer" /\ api.pos = "awaitFetch"
    /\ \E senderAccount \in SenderAccounts, receiverAccount \in ReceiverAccounts,
          nonce \in Nonces :
          LET p1 == IF ~senderAccount.found
                    THEN Reject(api.promise, "transfer_sender_account_not_found")
                    ELSE api.promise
              p2 == IF ~receiverAccount.found
                    THEN Reject(p1, "transfer_receiver_account_not_found")
                    ELSE p1
              fromPublicKey == senderAccount.memo_key
              toPublicKey == IF receiverAccount.found THEN receiverAccount.memo_key
                             ELSE PubStringOf(PublicOf(2))
              pubKey == publicKeyFromString(toPublicKey)
              pKey == privateKeyFromWif(api.args[2])
              fetched == [sender |-> senderAccount, receiver |-> receiverAccount,
                          encrypted |-> FALSE, memo_object |-> NoTransaction]
          IN  api' = IF ~pubKey.ok
                     THEN [api EXCEPT !.got = <<fetched>>,
                                      !.promise = Reject(p2, "account_fetch_failed"),
                                      !.pos = "done"]
                     ELSE [api EXCEPT
                             !.got = <<[fetched EXCEPT
                                          !.encrypted = TRUE,
                                          !.memo_object = MemoObject(api.args[1], pKey.val,
                                                             fromPublicKey, toPublicKey, nonce)]>>,
                             !.promise = p2,
                             !.reqs = Append(@, <<"broadcast">>),
                             !.pos = "awaitBroadcast"]
    /\ UNCHANGED otherVars

\* the fetch succeeded: a missing sender and a missing receiver are rejected,
\* without a return, so that reading the memo key of the missing account throws
\* into the catch of the chain; with both accounts the memo is encrypted and
\* the transaction is broadcast
TransferFetchThen ==
    /\ api.op = "transfer" /\ api.pos = "awaitFetch"
    /\ \E senderAccount \in SenderAccounts, receiverAccount \in ReceiverAccounts,
          nonce \in Nonces :
          LET p1 == IF ~senderAccount.found
                    THEN Reject(api.promise, "transfer_sender_account_not_found")
                    ELSE api.promise
              p2 == IF ~receiverAccount.found
                    THEN Reject(p1, "transfer_receiver_account_not_found")
                    ELSE p1
              fromPublicKey == senderAccount.memo_key
              toPublicKey == receiverAccount.memo_key
              pubKey == publicKeyFromString(toPublicKey)
              pKey == privateKeyFromWif(api.args[2])
              fetched == [sender |-> senderAccount, receiver |-> receiverAccount,
                          encrypted |-> FALSE, memo_object |-> NoTransaction]
          IN  api' = IF ~senderAccount.found \/ ~receiverAccount.found \/ ~pubKey.ok
                     THEN [api EXCEPT !.got = <<fetched>>,
                                      !.promise = Reject(p2, "account_fetch_failed"),
                                      !.pos = "done"]
                     ELSE [api EXCEPT
                             !.got = <<[fetched EXCEPT
                                          !.encrypted = TRUE,
                                          !.memo_object = MemoObject(api.args[1], pKey.val,
                                                             fromPublicKey, toPublicKey, nonce)]>>,
                             !.promise = p2,
                             !.reqs = Append(@, <<"broadcast">>),
                             !.pos = "awaitBroadcast"]
    /\ UNCHANGED otherVars

\* the fetch failed
TransferFetchCatch ==
    /\ api.op = "transfer" /\ api.pos = "awaitFetch"
    /\ api' = [api EXCEPT !.promise = Reject(@, "account_fetch_failed"), !.pos = "done"]
    /\ UNCHANGED otherVars

\* the broadcast succeeded: the promise is resolved with the operation
TransferBroadcastThen ==
    /\ api.op = "transfer" /\ api.pos = "awaitBroadcast"
    /\ api' = [api EXCEPT !.promise = Resolve(@, <<"operation", api.got[1].memo_object>>),
                          !.pos = "done"]
    /\ UNCHANGED otherVars

\* the broadcast failed
TransferBroadcastCatch ==
    /\ api.op = "transfer" /\ api.pos = "awaitBroadcast"
    /\ api' = [api EXCEPT !.promise = Reject(@, "transaction_broadcast_failed"),
                          !.pos = "done"]
    /\ UNCHANGED otherVars

\* what the database answers to GetAccounts([id]): the accounts found
AccountLists == SeqsUpTo({1, 2}, 2)

\* getAccountById(id), the executor: the request is issued
GetAccountByIdCall ==
    /\ api.pos = "idle"
    /\ api' = [NoApi EXCEPT !.op = "getAccountById", !.promise = NewPromise,
                            !.reqs = <<<<"GetAccounts">>>>, !.pos = "awaitAccounts"]
    /\ UNCHANGED otherVars

\* a callback that resolves with the first account before it looks at the length
GetAccountByIdThenResolveFirst ==
    /\ api.op = "getAccountById" /\ api.pos = "awaitAccounts"
    /\ \E accounts \in AccountLists :
          LET account == IF Len(accounts) = 0 THEN <<"undefined">>
                         ELSE <<"account", accounts[1]>>
              p1 == Resolve(api.promise, account)
          IN  api' = [api EXCEPT !.got = <<accounts>>,
                                 !.promise = IF Len(accounts) = 0
                                             THEN Reject(p1, "account_does_not_exist")
                                             ELSE p1,
                                 !.pos = "done"]
    /\ UNCHANGED otherVars

\* the request succeeded: an empty list is rejected, without a return, and
\* resolve is called with the first element, which an empty list does not have
GetAccountByIdThen ==
    /\ api.op = "getAccountById" /\ api.pos = "awaitAccounts"
    /\ \E accounts \in AccountLists :
          LET account == IF Len(accounts) = 0 THEN <<"undefined">>
                         ELSE <<"account", accounts[1]>>
              p1 == IF Len(accounts) = 0
                    THEN Reject(api.promise, "account_does_not_exist")
                    ELSE api.promise
          IN  api' = [api EXCEPT !.got = <<accounts>>,
                                 !.promise = Resolve(p1, account),
                                 !.pos = "done"]
    /\ UNCHANGED otherVars

\* the request failed
GetAccountByIdCatch ==
    /\ api.op = "getAccountById" /\ api.pos = "awaitAccounts"
    /\ api' = [api EXCEPT !.promise = Reject(@, "account_fetch_failed"), !.pos = "caught"]
    /\ UNCHANGED otherVars

\* what the database answers to GetAssets and to GetAccountBalances
AssetLists == SeqsUpTo({1}, 1)
BalanceLists == SeqsUpTo({0, 5}, 1)

\* getBalance(accountId, assetId, convertAsset), the executor: a missing
\* account id is rejected and nothing is requested
GetBalanceCall ==
    /\ api.pos = "idle"
    /\ \E accountId \in {<<>>, <<49>>} :
          LET call == [NoApi EXCEPT !.op = "getBalance", !.args = <<accountId>>]
          IN  api' = IF accountId = <<>>
                     THEN [call EXCEPT !.promise = Reject(NewPromise, "missing_parameter"),
                                       !.pos = "done"]
                     ELSE [call EXCEPT !.promise = NewPromise,
                                       !.reqs = <<<<"GetAssets">>>>,
                                       !.pos = "awaitAssets"]
    /\ UNCHANGED otherVars

\* the asset request succeeded: no asset is rejected, else the balances are
\* requested
GetBalanceAssetsThen ==
    /\ api.op = "getBalance" /\ api.pos = "awaitAssets"
    /\ \E assets \in AssetLists :
          api' = IF Len(assets) = 0
                 THEN [api EXCEPT !.got = <<assets>>,
                                  !.promise = Reject(@, "asset_fetch_failed"),
                                  !.pos = "done"]
                 ELSE [api EXCEPT !.got = <<assets>>,
                                  !.reqs = Append(@, <<"GetAccountBalances">>),
                                  !.pos = "awaitBalances"]
    /\ UNCHANGED otherVars

\* the asset request failed: the catch builds the error and drops it
GetBalanceAssetsCatch ==
    /\ api.op = "getBalance" /\ api.pos = "awaitAssets"
    /\ api' = [api EXCEPT !.pos = "caught"]
    /\ UNCHANGED otherVars

\* the balance request succeeded
GetBalanceBalancesThen ==
    /\ api.op = "getBalance" /\ api.pos = "awaitBalances"
    /\ \E balances \in BalanceLists :
          api' = [api EXCEPT !.got = Append(@, balances),
                             !.promise = IF Len(balances) = 0
                                         THEN Reject(@, "asset_does_not_exist")
                                         ELSE Resolve(@, <<"amount", balances[1]>>),
                             !.pos = "done"]
    /\ UNCHANGED otherVars

\* the balance request failed
GetBalanceBalancesCatch ==
    /\ api.op = "getBalance" /\ api.pos = "awaitBalances"
    /\ api' = [api EXCEPT !.promise = Reject(@, "database_operation_failed"),
                          !.pos = "caught"]
    /\ UNCHANGED otherVars

\* what the database answers to SearchAccountHistory
TransactionLists == SeqsUpTo(ScanTransactions, MaxTxs)

\* the records of transactions.map as far as the constructor does not raise:
\* memoString of each, the account names not yet known
RECURSIVE MapRecords(_, _, _)
MapRecords(transactions, keys, out) ==
    IF transactions = <<>> THEN [raised |-> FALSE, res |-> out]
    ELSE LET r == decryptedMessage(TransactionMemo(transactions[1]), keys)
         IN  IF r.outcome = "raised" THEN [raised |-> TRUE, res |-> out]
             ELSE MapRecords(Tail(transactions), keys,
                             Append(out, [memoString |-> r.value,
                                          fromAccountName |-> "unset",
                                          toAccountName |-> "unset"]))

\* the getAccountById requests the records built so far have issued
LookupRequests(n) == [k \in 1..(2 * n) |-> <<"GetAccounts">>]

\* searchAccountHistory(accountId, privateKeys, ...), the executor
SearchAccountHistoryCall ==
    /\ api.pos = "idle"
    /\ \E keys \in {<<>>, <<WifOf(1)>>} :
          api' = [NoApi EXCEPT !.op = "searchAccountHistory", !.args = <<keys>>,
                               !.promise = NewPromise,
                               !.reqs = <<<<"SearchAccountHistory">>>>,
                               !.pos = "awaitHistory"]
    /\ UNCHANGED otherVars

\* the history search succeeded: the assets are requested
SearchAccountHistoryThen ==
    /\ api.op = "searchAccountHistory" /\ api.pos = "awaitHistory"
    /\ \E transactions \in TransactionLists :
          api' = [api EXCEPT !.got = <<transactions>>,
                             !.reqs = Append(@, <<"ListAssets">>),
                             !.pos = "awaitAssets"]
    /\ UNCHANGED otherVars

\* the history search failed
SearchAccountHistoryCatch ==
    /\ api.op = "searchAccountHistory" /\ api.pos = "awaitHistory"
    /\ api' = [api EXCEPT !.promise = Reject(@, "transaction_history_fetch_failed"),
                          !.pos = "caught"]
    /\ UNCHANGED otherVars

\* the asset listing succeeded: a record is built per transaction and two name
\* lookups are issued for it; a constructor that raises leaves the callback,
\* whose chain has no catch; with no transaction Promise.all resolves at once
SearchAccountHistoryAssetsThen ==
    /\ api.op = "searchAccountHistory" /\ api.pos = "awaitAssets"
    /\ LET built == MapRecords(api.got[1], api.args[1], <<>>)
           n == Len(built.res)
           names == [res |-> built.res, pending |-> 1..(2 * n), failed |-> FALSE]
       IN  api' = IF built.raised
                  THEN [api EXCEPT !.got = Append(@, names),
                                   !.reqs = @ \o LookupRequests(n),
                                   !.thrown = "unhandled",
                                   !.pos = "unhandled"]
                  ELSE IF n = 0
                  THEN [api EXCEPT !.got = Append(@, names),
                                   !.promise = Resolve(@, <<"records", built.res>>),
                                   !.pos = "done"]
                  ELSE [api EXCEPT !.got = Append(@, names),
                                   !.reqs = @ \o LookupRequests(n),
                                   !.pos = "awaitNames"]
    /\ UNCHANGED otherVars

\* the asset listing failed: its chain has no catch
SearchAccountHistoryAssetsFail ==
    /\ api.op = "searchAccountHistory" /\ api.pos = "awaitAssets"
    /\ api' = [api EXCEPT !.thrown = "unhandled", !.pos = "unhandled"]
    /\ UNCHANGED otherVars

\* the lookup k found its account: the name is stored in the record, and when
\* it was the last of lookups that all succeeded, Promise.all resolves and the
\* promise is resolved with the records
SearchAccountHistoryNameThen(k) ==
    /\ api.op = "searchAccountHistory" /\ api.pos = "awaitNames"
    /\ k \in api.got[2].pending
    /\ LET names == api.got[2]
           i == (k + 1) \div 2
           res == IF k % 2 = 1
                  THEN [names.res EXCEPT ![i].fromAccountName = "set"]
                  ELSE [names.res EXCEPT ![i].toAccountName = "set"]
           pending == names.pending \ {k}
       IN  api' = [api EXCEPT
                     !.got[2] = [names EXCEPT !.res = res, !.pending = pending],
                     !.promise = IF pending = {} /\ ~names.failed
                                 THEN Resolve(@, <<"records", res>>) ELSE @,
                     !.pos = IF pending = {} THEN "done" ELSE @]
    /\ UNCHANGED otherVars

\* the lookup k failed: Promise.all rejects, and the promise with it
SearchAccountHistoryNameCatch(k) ==
    /\ api.op = "searchAccountHistory" /\ api.pos = "awaitNames"
    /\ k \in api.got[2].pending
    /\ LET names == api.got[2]
           pending == names.pending \ {k}
       IN  api' = [api EXCEPT
                     !.got[2] = [names EXCEPT !.pending = pending, !.failed = TRUE],
                     !.promise = IF names.failed THEN @
                                 ELSE Reject(@, "account_fetch_failed"),
                     !.pos = IF pending = {} THEN "done" ELSE @]
    /\ UNCHANGED otherVars

\* what the database answers to a subscription listing
SubscriptionLists == SeqsUpTo({1, 2}, 2)

\* the operations of SubscriptionModule
SubscriptionOperations ==
    {"listActiveSubscriptionByConsumer", "listSubscriptionsByConsumer", "listActiveSubscriptionsByAuthor", "listSubscriptionsByAuthor"}

\* SubscriptionModule.listActiveSubscriptionByConsumer(id, count), the executor
ListActiveSubscriptionByConsumerCall ==
    /\ api.pos = "idle"
    /\ api' = [NoApi EXCEPT !.op = "listActiveSubscriptionByConsumer", !.promise = NewPromise,
                            !.reqs = <<<<"ListActiveSubscriptionsByConsumer">>>>,
                            !.pos = "awaitList"]
    /\ UNCHANGED otherVars

\* listActiveSubscriptionByConsumer: the database answered, the answer is written to the console
ListActiveSubscriptionByConsumerThen ==
    /\ api.op = "listActiveSubscriptionByConsumer" /\ api.pos = "awaitList"
    /\ \E res \in SubscriptionLists :
          api' = [api EXCEPT !.got = <<res>>, !.pos = "done"]
    /\ UNCHANGED otherVars

\* listActiveSubscriptionByConsumer: the database call failed
ListActiveSubscriptionByConsumerCatch ==
    /\ api.op = "listActiveSubscriptionByConsumer" /\ api.pos = "awaitList"
    /\ api' = [api EXCEPT !.promise = Reject(@, "database_operation_failed"),
                          !.pos = "caught"]
    /\ UNCHANGED otherVars

\* SubscriptionModule.listSubscriptionsByConsumer(id, count), the executor
ListSubscriptionsByConsumerCall ==
    /\ api.pos = "idle"
    /\ api' = [NoApi EXCEPT !.op = "listSubscriptionsByConsumer", !.promise = NewPromise,
                            !.reqs = <<<<"ListSubscriptionsByConsumer">>>>,
                            !.pos = "awaitList"]
    /\ UNCHANGED otherVars

\* listSubscriptionsByConsumer: the database answered, the promise is resolved with the answer
ListSubscriptionsByConsumerThen ==
    /\ api.op = "listSubscriptionsByConsumer" /\ api.pos = "awaitList"
    /\ \E res \in SubscriptionLists :
          api' = [api EXCEPT !.got = <<res>>,
                             !.promise = Resolve(@, <<"list", res>>),
                             !.pos = "done"]
    /\ UNCHANGED otherVars

\* listSubscriptionsByConsumer: the database call failed
ListSubscriptionsByConsumerCatch ==
    /\ api.op = "listSubscriptionsByConsumer" /\ api.pos = "awaitList"
    /\ api' = [api EXCEPT !.promise = Reject(@, "database_operation_failed"),
                          !.pos = "caught"]
    /\ UNCHANGED otherVars

\* SubscriptionModule.listActiveSubscriptionsByAuthor(id, count), the executor
ListActiveSubscriptionsByAuthorCall ==
    /\ api.pos = "idle"
    /\ api' = [NoApi EXCEPT !.op = "listActiveSubscriptionsByAuthor", !.promise = NewPromise,
                            !.reqs = <<<<"ListActiveSubscriptionsByAuthor">>>>,
                            !.pos = "awaitList"]
    /\ UNCHANGED otherVars

\* listActiveSubscriptionsByAuthor: the database answered, the promise is resolved with the answer
ListActiveSubscriptionsByAuthorThen ==
    /\ api.op = "listActiveSubscriptionsByAuthor" /\ api.pos = "awaitList"
    /\ \E res \in SubscriptionLists :
          api' = [api EXCEPT !.got = <<res>>,
                             !.promise = Resolve(@, <<"list", res>>),
                             !.pos = "done"]
    /\ UNCHANGED otherVars

\* listActiveSubscriptionsByAuthor: the database call failed
ListActiveSubscriptionsByAuthorCatch ==
    /\ api.op = "listActiveSubscriptionsByAuthor" /\ api.pos = "awaitList"
    /\ api' = [api EXCEPT !.promise = Reject(@, "database_operation_failed"),
                          !.pos = "caught"]
    /\ UNCHANGED otherVars

\* SubscriptionModule.listSubscriptionsByAuthor(id, count), the executor
ListSubscriptionsByAuthorCall ==
    /\ api.pos = "idle"
    /\ api' = [NoApi EXCEPT !.op = "listSubscriptionsByAuthor", !.promise = NewPromise,
                            !.reqs = <<<<"ListSubscriptionsByConsumer">>>>,
                            !.pos = "awaitList"]
    /\ UNCHANGED otherVars

\* listSubscriptionsByAuthor: the database answered, the promise is resolved with the answer
ListSubscriptionsByAuthorThen ==
    /\ api.op = "listSubscriptionsByAuthor" /\ api.pos = "awaitList"
    /\ \E res \in SubscriptionLists :
          api' = [api EXCEPT !.got = <<res>>,
                             !.promise = Resolve(@, <<"list", res>>),
                             !.pos = "done"]
    /\ UNCHANGED otherVars

\* listSubscriptionsByAuthor: the database call failed
ListSubscriptionsByAuthorCatch ==
    /\ api.op = "listSubscriptionsByAuthor" /\ api.pos = "awaitList"
    /\ api' = [api EXCEPT !.promise = Reject(@, "database_operation_failed"),
                          !.pos = "caught"]
    /\ UNCHANGED otherVars

ApiNext ==
    \/ IsTransactionConfirmedCall
    \/ IsTransactionConfirmedHistoryThen
    \/ IsTransactionConfirmedHistoryCatch
    \/ IsTransactionConfirmedPropsThen
    \/ IsTransactionConfirmedPropsCatch
    \/ TransferCall
    \/ TransferFetchThen
    \/ TransferFetchCatch
    \/ TransferBroadcastThen
    \/ TransferBroadcastCatch
    \/ GetAccountByIdCall
    \/ GetAccountByIdThen
    \/ GetAccountByIdCatch
    \/ GetBalanceCall
    \/ GetBalanceAssetsThen
    \/ GetBalanceAssetsCatch
    \/ GetBalanceBalancesThen
    \/ GetBalanceBalancesCatch
    \/ SearchAccountHistoryCall
    \/ SearchAccountHistoryThen
    \/ SearchAccountHistoryCatch
    \/ SearchAccountHistoryAssetsThen
    \/ SearchAccountHistoryAssetsFail
    \/ \E k \in 1..(2 * MaxTxs) : SearchAccountHistoryNameThen(k)
    \/ \E k \in 1..(2 * MaxTxs) : SearchAccountHistoryNameCatch(k)
    \/ ListActiveSubscriptionByConsumerCall
    \/ ListActiveSubscriptionByConsumerThen
    \/ ListActiveSubscriptionByConsumerCatch
    \/ ListSubscriptionsByConsumerCall
    \/ ListSubscriptionsByConsumerThen
    \/ ListSubscriptionsByConsumerCatch
    \/ ListActiveSubscriptionsByAuthorCall
    \/ ListActiveSubscriptionsByAuthorThen
    \/ ListActiveSubscriptionsByAuthorCatch
    \/ ListSubscriptionsByAuthorCall
    \/ ListSubscriptionsByAuthorThen
    \/ ListSubscriptionsByAuthorCatch

\* one call of a module method, from the call to the last callback
ApiSpec == Init /\ [][ApiNext]_vars

\* the same, where every request the call issued is answered in the end
ApiLiveSpec == Init /\ [][ApiNext]_vars /\ WF_vars(ApiNext)


\* ---------------------------------------------------------------- claims
Range(q) == {q[i] : i \in 1..Len(q)}

\* the history call has ended, by returning or by raising
Done == pc \in {"returned", "raised"}

\* what candidate i alone does with the memo: the plaintext string it
\* recovers, or the failure of its decode or of its decryption
Attempt(i) ==
    LET pubKey == publicKeyFromString(memo.to)
        pKey == privateKeyFromWif(privateKeys[i])
    IN  IF ~pubKey.ok THEN Throw(pubKey.err)
        ELSE IF ~pKey.ok THEN Throw(pKey.err)
        ELSE LET r == decryptWithChecksum(memo.message, pKey.val, pubKey.val, memo.nonce)
             IN  IF r.ok THEN Ok(BufferToString(r.val)) ELSE r

Successes == {i \in 1..Len(privateKeys) : Attempt(i).ok}
MinOf(S) == CHOOSE x \in S : \A y \in S : x <= y
MaxOf(S) == CHOOSE x \in S : \A y \in S : x >= y

\* the events of a complete scan of the candidate list, in order
RECURSIVE ExpectedLog(_)
ExpectedLog(n) ==
    IF n = 0 THEN <<<<"pub", 0>>>>
    ELSE ExpectedLog(n - 1) \o
         (IF privateKeyFromWif(privateKeys[n]).ok
          THEN <<<<"wif", n>>, <<"dec", n>>>> ELSE <<<<"wif", n>>>>)

IsPrefix(p, q) == Len(p) <= Len(q) /\ \A i \in 1..Len(p) : p[i] = q[i]

\* C1: a memo made by transfer() for the recipient key pubB is recovered by
\* decryptedMessage whenever the candidate list holds the recipient's private
\* key privB, whatever else the list holds.
C1_RecipientRecoversMemo ==
    (Done /\ sent.made) =>
        \A d \in PrivKeys :
            (PublicOf(d) = sent.toKey /\ WifOf(d) \in Range(privateKeys))
                => (pc = "returned" /\ memoString = sent.memo)

\* C2: a candidate that fails to decode or to decrypt never ends the scan and
\* never throws out of decryptedMessage: once a candidate has been tried, every
\* later candidate is tried too and the call returns.
C2_FailuresNeverAbort ==
    Done =>
        \A i \in 1..Len(privateKeys) :
            <<"wif", i>> \in Range(scan.log) =>
                /\ pc = "returned"
                /\ scan.thrown = "none"
                /\ \A j \in i..Len(privateKeys) : <<"wif", j>> \in Range(scan.log)

C2_Witness ==
    /\ pc = "returned"
    /\ Len(privateKeys) = 2
    /\ scan.caught = <<"wrong_private_key">>
    /\ ~Attempt(1).ok
    /\ Attempt(2).ok
    /\ memoString # <<>>

\* C3: for a memo that is not valid, decryptedMessage returns the empty string
\* at once: nothing is raised, no key is decoded, no decryption is attempted.
C3_AbsentMemoReturnsEmpty ==
    (Done /\ ~memo.valid) =>
        /\ pc = "returned"
        /\ memoString = <<>>
        /\ scan.log = <<>>
        /\ scan.thrown = "none"

C3_Witness == pc = "returned" /\ ~memo.valid /\ Len(privateKeys) >= 2

\* C4: for a valid memo that no candidate decodes and decrypts, decryptedMessage
\* returns the empty string and raises nothing.
C4_NoSuccessReturnsEmpty ==
    (Done /\ memo.valid /\ Successes = {}) =>
        (pc = "returned" /\ memoString = <<>>)

\* C5: when several candidates decrypt the memo, the result is the plaintext of
\* the earliest of them in list order.
C5_FirstSuccessWins ==
    (Done /\ memo.valid /\ Successes # {}) =>
        (pc = "returned" /\ memoString = Attempt(MinOf(Successes)).val)

\* C6: the scan tries every candidate, and the result is the plaintext of the
\* last candidate in list order that decrypted; later failures leave it alone.
C6_LastSuccessWins ==
    (Done /\ memo.valid /\ Successes # {}) =>
        /\ pc = "returned"
        /\ \A i \in 1..Len(privateKeys) : <<"wif", i>> \in Range(scan.log)
        /\ memoString = Attempt(MaxOf(Successes)).val

C6_Witness ==
    /\ pc = "returned"
    /\ Len(privateKeys) = 2
    /\ Successes = {1, 2}
    /\ Attempt(1).val # Attempt(2).val
    /\ memoString = Attempt(2).val

\* C7: decryptedMessage never raises; for a memo flagged valid whose recipient
\* key does not decode it returns the empty string.
C7_NeverRaises ==
    Done =>
        /\ pc = "returned"
        /\ (memo.valid /\ ~publicKeyFromString(memo.to).ok) => memoString = <<>>

C9_MemoRoundTrip ==
    sent.made =>
        \A d \in PrivKeys :
            PublicOf(d) = sent.toKey =>
                LET r == decryptWithChecksum(chain.message, d, PublicOf(sent.pKey),
                                             chain.nonce)
                IN  r.ok /\ BufferToString(r.val) = sent.memo

C9_Witness ==
    /\ sent.made
    /\ sent.memo # <<>>
    /\ sent.toKey # PublicOf(sent.pKey)
    /\ chain.nonce # 0

\* C10: Diffie-Hellman symmetry: the secret of (privA, pubB) is the secret of
\* (privB, pubA).
C10_SharedSecretSymmetric ==
    sent.made =>
        \A d \in PrivKeys :
            PublicOf(d) = sent.toKey =>
                SharedSecret(sent.pKey, sent.toKey) = SharedSecret(d, PublicOf(sent.pKey))

C10_Witness ==
    /\ sent.made
    /\ sent.toKey # PublicOf(sent.pKey)
    /\ \E d \in PrivKeys : PublicOf(d) = sent.toKey /\ d # sent.pKey

\* the position in scan.caught of the error candidate i left there
CaughtIndex(i) == Cardinality({j \in 1..i : ~Attempt(j).ok})

\* C12: a decryption attempt that fails, by an exception of the symmetric
\* cipher or by a checksum mismatch, always leaves the same error condition
\* (account_keys_incorrect), and the scan goes on as for any other failure.
C12_FailuresNormalized ==
    Done =>
        \A i \in 1..Len(privateKeys) :
            (<<"dec", i>> \in Range(scan.log) /\ ~Attempt(i).ok) =>
                /\ Attempt(i).err \in {"cipher_error", "checksum_mismatch"}
                /\ CaughtIndex(i) <= Len(scan.caught)
                /\ scan.caught[CaughtIndex(i)] = "account_keys_incorrect"

C12_Witness ==
    /\ pc = "returned"
    /\ Len(privateKeys) = 2
    /\ privateKeyFromWif(privateKeys[1]).ok
    /\ Attempt(1).ok = FALSE
    /\ Attempt(1).err = "cipher_error"
    /\ scan.caught[1] = "account_keys_incorrect"

\* the same, for a checksum mismatch
C12_WitnessChecksum ==
    /\ pc = "returned"
    /\ privateKeys # <<>>
    /\ privateKeyFromWif(privateKeys[1]).ok
    /\ Attempt(1).ok = FALSE
    /\ Attempt(1).err = "checksum_mismatch"
    /\ scan.caught[1] = "account_keys_incorrect"

\* ------------------------------------------------------------ Utils claims
\* the text a call returned
Returned(call) == call.res.val

\* C13: normalize is idempotent: normalizing the text that normalize returned
\* gives that text again.
C13_NormalizeIdempotent ==
    last.op = "normalize" => normalize(Returned(last)) = Returned(last)

C13_Witness ==
    /\ last.op = "normalize"
    /\ last.arg[1] = <<32, 97, 9>>
    /\ Returned(last) = <<65>>

\* the maximal runs of non-whitespace characters of a text, in order
RECURSIVE WordsRec(_, _, _)
WordsRec(s, cur, out) ==
    LET closed == IF cur = <<>> THEN out ELSE Append(out, cur)
    IN  IF s = <<>> THEN closed
        ELSE IF s[1] \in TrimWhitespace THEN WordsRec(Tail(s), <<>>, closed)
        ELSE WordsRec(Tail(s), Append(cur, s[1]), out)
Words(s) == WordsRec(s, <<>>, <<>>)

\* C14: the text normalize returns has no whitespace at either end, no tab,
\* newline, carriage return or form feed, no two adjacent spaces and no
\* lower-case letter, and its words are the words of the argument upper-cased.
C14_NormalizedShape ==
    last.op = "normalize" =>
        LET s == last.arg[1]
            r == Returned(last)
        IN  /\ r # <<>> => (r[1] \notin TrimWhitespace /\ r[Len(r)] \notin TrimWhitespace)
            /\ \A i \in 1..Len(r) : r[i] \notin {9, 10, 12, 13}
            /\ \A i \in 1..(Len(r) - 1) : ~(r[i] = 32 /\ r[i + 1] = 32)
            /\ \A i \in 1..Len(r) : r[i] \notin 97..122
            /\ Words(r) = Words(ToUpperCase(s))

C14_Witness ==
    /\ last.op = "normalize"
    /\ last.arg[1] = <<97, 9, 66>>
    /\ Returned(last) = <<65, 32, 66>>

IsWifOfValidKey(text) == \E k \in ValidScalars : text = WifOf(k)

\* C17: for every text that is not a validly checksummed wire-format private
\* key, privateKeyFromWif fails with wrong_private_key, whichever error the
\* decoder raised, and returns no key.
C17_InvalidWifIsWrongPrivateKey ==
    (last.op = "privateKeyFromWif" /\ ~IsWifOfValidKey(last.arg[1])) =>
        last.res = Throw("wrong_private_key")

\* a text of the right length whose checksum is wrong
C17_Witness ==
    /\ last.op = "privateKeyFromWif"
    /\ KeyPrivateFromWif(last.arg[1]) = Throw("invalid_checksum")
    /\ last.res = Throw("wrong_private_key")

\* the same, for a text of the wrong length
C17_WitnessLength ==
    /\ last.op = "privateKeyFromWif"
    /\ KeyPrivateFromWif(last.arg[1]) = Throw("invalid_length")
    /\ last.res = Throw("wrong_private_key")

\* the same, for a text whose leading byte is out of range
C17_WitnessVersion ==
    /\ last.op = "privateKeyFromWif"
    /\ KeyPrivateFromWif(last.arg[1]) = Throw("invalid_version")
    /\ last.res = Throw("wrong_private_key")

\* the public keys of the signing curve
ValidPublicKeys == {PublicOf(k) : k \in ValidScalars}

\* C18: privateKeyFromWif applied to the wire string of a valid private key
\* returns that key, and publicKeyFromString applied to the string of a valid
\* public key returns that public key.
C18_EncodingRoundTrip ==
    /\ \A k \in ValidScalars :
          (last.op = "privateKeyFromWif" /\ last.arg[1] = WifOf(k)) => last.res = Ok(k)
    /\ \A Q \in ValidPublicKeys :
          (last.op = "publicKeyFromString" /\ last.arg[1] = PubStringOf(Q)) =>
              last.res = Ok(Q)

C18_Witness ==
    /\ last.op = "publicKeyFromString"
    /\ last.arg[1] = PubStringOf(PublicOf(CurveModulus - 1))
    /\ last.res = Ok(PublicOf(CurveModulus - 1))

\* the same, for a private key
C18_WitnessPrivate ==
    /\ last.op = "privateKeyFromWif"
    /\ last.arg[1] = WifOf(CurveModulus - 1)
    /\ last.res = Ok(CurveModulus - 1)

\* the texts that spell a decimal number
IsDecimalText(text) == text # <<>> /\ \A i \in 1..Len(text) : text[i] \in 48..57

\* C19 (as stated): elGamalPrivate given a text that is no private key, and
\* elGamalPublic given a text that is no number, both fail with
\* wrong_private_key; no other error leaves the call and no key is returned.
C19_MalformedInputIsWrongPrivateKey ==
    /\ (last.op = "elGamalPrivate" /\ ~IsWifOfValidKey(last.arg[1])) =>
           last.res = Throw("wrong_private_key")
    /\ (last.op = "elGamalPublic" /\ ~IsDecimalText(last.arg[1])) =>
           last.res = Throw("wrong_private_key")

\* C20: for every valid signing key k, elGamalPublic applied to the text
\* elGamalPrivate(k) returns the number generator^priv mod modulus, which is
\* below the modulus, priv being the hash of k read as a number; and two calls
\* of an El Gamal operation with the same argument return the same text.
C20_ElGamalPublicOfPrivate ==
    /\ \A k \in ValidScalars :
          (last.op = "elGamalPublic" /\ last.arg[1] = elGamalPrivate(WifOf(k)).val) =>
              /\ last.res.ok
              /\ IsDecimalText(Returned(last))
              /\ LET pub == ParseRadix(Returned(last), 10, 0)
                 IN  /\ pub < ElGamalModulus
                     /\ pub = modPow(ElGamalGenerator, Sha512Value(k), ElGamalModulus)
    /\ (/\ pinned.op \in {"elGamalPrivate", "elGamalPublic"}
        /\ pinned.op = last.op
        /\ pinned.arg = last.arg) => pinned.res = last.res

C20_Witness ==
    /\ last.op = "elGamalPublic"
    /\ last.arg[1] = elGamalPrivate(WifOf(2)).val
    /\ last.res.ok
    /\ pinned.op = "elGamalPublic"
    /\ pinned.arg = last.arg
    /\ since = "later"

\* ------------------------------------------------- concurrent scan claim
\* C21: decryptedMessage changes neither the fields of the envelope nor the
\* key list it was given, and a call interleaved with the calls of another
\* call site, on the same or on another envelope, ends as that call alone.
C21_NoSharedStateMutated ==
    /\ \A e \in EnvelopeIds : envelopes[e].memo = envelopes[e].built
    /\ \A c \in CallSites :
          /\ jobs[c].privateKeys = jobs[c].given
          /\ jobs[c].pc \in {"returned", "raised"} =>
                LET alone == decryptedMessage(envelopes[jobs[c].env].built, jobs[c].given)
                IN  /\ alone.outcome = jobs[c].pc
                    /\ alone.value = jobs[c].value
                    /\ alone.scan = jobs[c].acc

C21_Witness ==
    /\ jobs["a"].pc = "returned"
    /\ jobs["b"].pc = "returned"
    /\ jobs["a"].env = jobs["b"].env
    /\ jobs["a"].interleaved
    /\ jobs["b"].interleaved
    /\ jobs["a"].value # <<>>
    /\ jobs["b"].value = <<>>
    /\ Len(jobs["b"].given) = 2

\* ------------------------------------------------ TransactionRecord claim
\* C23: the memo of a TransactionRecord is valid exactly when the transaction
\* carries an encrypted memo; without one the construction succeeds for every
\* key list and memoString is the empty string; with one, memoString is what
\* decryptedMessage returns for the key list.
C23_MemoValidAndMemoString ==
    pc \in {"returned", "raised"} =>
        /\ memo.valid <=> chain.hasMemo
        /\ ~chain.hasMemo => (pc = "returned" /\ memoString = <<>>)
        /\ (chain.hasMemo /\ pc = "returned") =>
               /\ memoString = scan.decrypted
               /\ memoString = decryptedMessage(TransactionMemo(chain), privateKeys).value

C23_Witness ==
    /\ pc = "returned"
    /\ ~chain.hasMemo
    /\ ~memo.valid
    /\ Len(privateKeys) = 2
    /\ memoString = <<>>

\* the same, for a transaction with a memo
C23_WitnessMemo ==
    /\ pc = "returned"
    /\ chain.hasMemo
    /\ memo.valid
    /\ memoString # <<>>
    /\ memoString = scan.decrypted

\* ------------------------------------------------------------- API claims
Resolved == api.promise.state = "resolved"
Rejected == api.promise.state = "rejected"
RejectedWith(e) == Rejected /\ api.promise.value = <<"error", e>>
Requested(name) == \E k \in 1..Len(api.reqs) : api.reqs[k][1] = name

\* C22: isTransactionConfirmed resolves only after the history request and the
\* request of the global properties have both succeeded, and then with true
\* exactly when the block number of the record found is at most the last
\* irreversible block number.
C22_ConfirmedIffIrreversible ==
    (api.op = "isTransactionConfirmed" /\ Resolved) =>
        /\ Len(api.got) = 2
        /\ Len(api.got[1]) > 0
        /\ api.promise.value = <<"boolean", api.got[1][1] <= api.got[2]>>

C22_Witness ==
    /\ api.op = "isTransactionConfirmed"
    /\ Resolved
    /\ api.got[1][1] = 1
    /\ api.got[2] = 2
    /\ api.promise.value = <<"boolean", TRUE>>

\* the same, for a block that is not yet irreversible
C22_WitnessFalse ==
    /\ api.op = "isTransactionConfirmed"
    /\ Resolved
    /\ api.got[1][1] = 2
    /\ api.got[2] = 1
    /\ api.promise.value = <<"boolean", FALSE>>

\* C24 (as stated): transfer called with a memo and an empty private key
\* returns a promise that is rejected with transfer_missing_pkey; nothing is
\* thrown and nothing is broadcast.
C24_MissingKeyRejected ==
    (api.op = "transfer" /\ api.args[1] # <<>> /\ api.args[2] = <<>>) =>
        /\ api.thrown = "none"
        /\ RejectedWith("transfer_missing_pkey")
        /\ ~Requested("broadcast")

\* C25: when the fetch of transfer finds no sender account (or, with a sender,
\* no receiver account) the promise stays rejected with
\* transfer_sender_account_not_found (transfer_receiver_account_not_found),
\* the first reject made; no memo is encrypted and nothing is broadcast.
C25_MissingAccountRejected ==
    (api.op = "transfer" /\ Len(api.got) > 0) =>
        LET fetched == api.got[1]
            missing == ~fetched.sender.found \/ ~fetched.receiver.found
            e == IF ~fetched.sender.found THEN "transfer_sender_account_not_found"
                 ELSE "transfer_receiver_account_not_found"
        IN  missing =>
                /\ RejectedWith(e)
                /\ api.promise.calls[1] = <<"reject", e>>
                /\ ~fetched.encrypted
                /\ ~Requested("broadcast")
                /\ api.pos = "done"

C25_Witness ==
    /\ api.op = "transfer"
    /\ Len(api.got) > 0
    /\ ~api.got[1].sender.found
    /\ api.got[1].receiver.found
    /\ api.args[1] # <<>>
    /\ RejectedWith("transfer_sender_account_not_found")
    /\ Len(api.promise.calls) = 2

\* the same, for a missing receiver
C25_WitnessReceiver ==
    /\ api.op = "transfer"
    /\ Len(api.got) > 0
    /\ api.got[1].sender.found
    /\ ~api.got[1].receiver.found
    /\ RejectedWith("transfer_receiver_account_not_found")
    /\ Len(api.promise.calls) = 2

\* the promise is settled as the first resolve or reject call made on it says
SettledByFirstCall ==
    /\ api.promise.calls # <<>>
    /\ api.promise.state = (IF api.promise.calls[1][1] = "resolve" THEN "resolved" ELSE "rejected")
    /\ api.promise.value = (IF api.promise.calls[1][1] = "resolve"
                            THEN api.promise.calls[1][2]
                            ELSE <<"error", api.promise.calls[1][2]>>)

\* C26: getAccountById rejects with account_does_not_exist when the database
\* returns no account, resolves with the first account otherwise, rejects with
\* account_fetch_failed when the request fails; the promise is settled once, by
\* the first call made on it, and never resolved with an undefined account.
C26_GetAccountByIdSettles ==
    (api.op = "getAccountById" /\ api.pos \in {"done", "caught"}) =>
        /\ SettledByFirstCall
        /\ ~(Resolved /\ api.promise.value = <<"undefined">>)
        /\ api.pos = "caught" => RejectedWith("account_fetch_failed")
        /\ api.pos = "done" =>
              IF Len(api.got[1]) = 0
              THEN RejectedWith("account_does_not_exist")
              ELSE Resolved /\ api.promise.value = <<"account", api.got[1][1]>>

C26_Witness ==
    /\ api.op = "getAccountById"
    /\ api.pos = "done"
    /\ api.got[1] = <<>>
    /\ RejectedWith("account_does_not_exist")
    /\ Len(api.promise.calls) = 2

\* the same, for a list of two accounts
C26_WitnessFound ==
    /\ api.op = "getAccountById"
    /\ api.pos = "done"
    /\ api.got[1] = <<2, 1>>
    /\ Resolved
    /\ api.promise.value = <<"account", 2>>

Settled == api.promise.state \in {"resolved", "rejected"}

\* C27 (as stated): the promise of getBalance is settled in the end whatever
\* the database answers, the failure of the asset request included, and with a
\* missing account id it is rejected with missing_parameter and nothing is
\* requested.
C27_GetBalanceSettles ==
    /\ [](api.op = "getBalance" => <>Settled)
    /\ []((api.op = "getBalance" /\ api.args[1] = <<>>) =>
              (RejectedWith("missing_parameter") /\ api.reqs = <<>>))

\* C28 (as stated): the promise of searchAccountHistory is settled in the end
\* whatever its requests answer; it is rejected when the history search, the
\* asset listing, the construction of a record or a name lookup fails, and
\* otherwise resolved with one record per transaction, in order, once every
\* name lookup has completed.
C28_SearchAccountHistorySettles ==
    /\ [](api.op = "searchAccountHistory" => <>Settled)
    /\ []((api.op = "searchAccountHistory" /\ api.pos \in {"caught", "unhandled"}) =>
              Rejected)
    /\ []((api.op = "searchAccountHistory" /\ Resolved) =>
              /\ api.got[2].pending = {}
              /\ ~api.got[2].failed
              /\ api.promise.value = <<"records", api.got[2].res>>
              /\ Len(api.got[2].res) = Len(api.got[1])
              /\ \A i \in 1..Len(api.got[1]) :
                    api.got[2].res[i].memoString =
                        decryptedMessage(TransactionMemo(api.got[1][i]), api.args[1]).value)

\* C29 (as stated): every list operation of SubscriptionModule returns a
\* promise that is in the end resolved with the answer of the database when
\* the database call succeeds, and that is rejected with
\* database_operation_failed when the call fails.
C29_SubscriptionListsSettle ==
    /\ []((api.op \in SubscriptionOperations /\ api.got # <<>>) =>
              <>(Resolved /\ api.promise.value = <<"list", api.got[1]>>))
    /\ []((api.op \in SubscriptionOperations /\ api.pos = "caught") =>
              RejectedWith("database_operation_failed"))

\* C30 (as stated): isTransactionConfirmed called with the id '1.7.0' is
\* rejected with bad_parameter and issues no history request and no database
\* request after that; with any other id the history request starts from the
\* id whose last component is one less than that of the transaction.
C30_ZeroIdRejectedWithoutRequest ==
    api.op = "isTransactionConfirmed" =>
        IF api.args[1] = <<49, 46, 55, 46, 48>>
        THEN RejectedWith("bad_parameter") /\ api.reqs = <<>>
        ELSE LET given == SplitDots(api.args[1])
                 start == SplitDots(api.reqs[1][2])
             IN  /\ api.reqs[1][1] = "GetAccountHistory"
                 /\ start[1] = given[1] /\ start[2] = given[2]
                 /\ ParseRadix(start[3], 10, 0) = ParseRadix(given[3], 10, 0) - 1
====
